---- MODULE Spec2Model ----
(***************************************************************************)
(* A model of beets/autotag/match.py: the recommendation classifier, the   *)
(* candidate accumulator, the track assignment, the distance calculators   *)
(* and the two tagging entry points.                                       *)
(*                                                                         *)
(* Scores are exact rationals raw/max.  One penalty is an integer in       *)
(* 0..Scale standing for the float penalty/Scale in [0,1]; a threshold t   *)
(* of the configuration stands for the float t/Scale.                      *)
(***************************************************************************)
EXTENDS Integers, Sequences, FiniteSets, TLC

VARIABLES
    config,      \* the configuration view: config["match"], config["import"]
    cache,       \* the functools.cache of the two length getters
    plugins,     \* what the plugin distance hooks contribute
    pc,          \* the position of the call under way
    results,     \* _recommendation: its argument
    base,        \* _recommendation: the rule that set rec before the downgrade pass
    rec,         \* _recommendation: its result
    lower,       \* the same list with a strictly smaller best score
    recLower,    \* _recommendation of that list
    cur_items,   \* the local records of the call
    cur_info,    \* the candidate AlbumInfo of the call
    assignment,  \* assign_items: its result
    cur_dist,    \* distance: its result
    candidates,  \* the result mapping of the run: album id -> AlbumMatch
    before,      \* the result mapping as it was before the last _add_candidate
                 \* (in tag_album: as it was after the lookup by the records' id)
    ncalls,      \* the number of _add_candidate calls of the run
    search_ids,  \* tag_album, tag_item: the search_ids argument
    calls,       \* the calls made to the metadata sources, with their answers
    returned     \* what the entry point returned

vars == <<config, cache, plugins, pc, results, base, rec, lower, recLower, cur_items, cur_info, assignment, cur_dist, candidates, before, ncalls, search_ids, calls, returned>>

\* The variables of a run of the candidate accumulator.
accVars == <<candidates, before, ncalls>>
\* The variables only the entry points write.
tagVars == <<search_ids, calls, returned>>

\* The variables the classifier's calls leave alone.
otherThanRec == <<cache, plugins, cur_items, cur_info, assignment, cur_dist, candidates, before, ncalls, search_ids, calls, returned>>
\* The variables only the classifier's calls write.
recVars == <<results, base, rec, lower, recLower>>

\* ------------------------------------------------------------------ bounds
\* Granularity of scores and thresholds.
Scale == 2
\* Longest candidate list handed to _recommendation.
MaxCands == 2

\* ------------------------------------------------- Recommendation (IntEnum)
none == 0
low == 1
medium == 2
strong == 3
Levels == {none, low, medium, strong}

Min(a, b) == IF a <= b THEN a ELSE b
Max(a, b) == IF a >= b THEN a ELSE b
Abs(a) == IF a < 0 THEN -a ELSE a

\* -------------------------------------------------------------- Distance
\* A Distance as _recommendation reads it: its aggregate score raw/max
\* (Distance.distance, 0.0 when max is 0), the keys Distance.keys() lists,
\* and the per-track Distances of a release-level Distance.
Num(d) == IF d.max = 0 THEN 0 ELSE d.raw
Den(d) == IF d.max = 0 THEN 1 ELSE d.max

\* min_dist < thresh, with thresh = t/Scale.
DistLt(d, t) == Num(d) * Scale < t * Den(d)
\* min_dist <= thresh.
DistLe(d, t) == Num(d) * Scale <= t * Den(d)
\* d2 - d1 >= thresh.
GapGe(d2, d1, t) == (Num(d2) * Den(d1) - Num(d1) * Den(d2)) * Scale >= t * Den(d1) * Den(d2)
\* d1 <= d2 as scores: the order _sort_candidates sorts by.
ScoreLe(d1, d2) == Num(d1) * Den(d2) <= Num(d2) * Den(d1)

\* ------------------------------------------------------- _recommendation
\* Lines 380-403: the basic distance thresholding.  Rule 6 is the early
\* return of line 403, which skips the downgrade pass.
BaseRule_strict(res, cfg) ==
    IF Len(res) = 0 THEN 1
    ELSE IF DistLe(res[1].distance, cfg.strong_rec_thresh) THEN 2
    ELSE IF DistLe(res[1].distance, cfg.medium_rec_thresh) THEN 3
    ELSE IF Len(res) = 1 THEN 4
    ELSE IF GapGe(res[2].distance, res[1].distance, cfg.rec_gap_thresh) THEN 5
    ELSE 6

BaseRule_flipped(res, cfg) ==
    IF Len(res) = 0 THEN 1
    ELSE IF ~DistLe(res[1].distance, cfg.strong_rec_thresh) THEN 2
    ELSE IF DistLe(res[1].distance, cfg.medium_rec_thresh) THEN 3
    ELSE IF Len(res) = 1 THEN 4
    ELSE IF GapGe(res[2].distance, res[1].distance, cfg.rec_gap_thresh) THEN 5
    ELSE 6

BaseRule(res, cfg) ==
    IF Len(res) = 0 THEN 1
    ELSE IF DistLt(res[1].distance, cfg.strong_rec_thresh) THEN 2
    ELSE IF DistLe(res[1].distance, cfg.medium_rec_thresh) THEN 3
    ELSE IF Len(res) = 1 THEN 4
    ELSE IF GapGe(res[2].distance, res[1].distance, cfg.rec_gap_thresh) THEN 5
    ELSE 6

RuleLevel(rule) ==
    CASE rule = 1 -> none
      [] rule = 2 -> strong
      [] rule = 3 -> medium
      [] rule = 4 -> low
      [] rule = 5 -> low
      [] OTHER -> none

\* Lines 407-410: the keys of the best candidate's Distance and, for an
\* AlbumMatch, of each of its per-track Distances.
DowngradeKeys_all(res) ==
    UNION {res[i].distance.keys : i \in 1..Len(res)}

DowngradeKeys(res) ==
    res[1].distance.keys \cup
        (IF res[1].kind = "album"
         THEN UNION {res[1].distance.tracks[t].keys : t \in DOMAIN res[1].distance.tracks}
         ELSE {})

RECURSIVE MinOver(_, _, _)
MinOver(r, keys, max_rec) ==
    IF keys = {} THEN r
    ELSE LET k == CHOOSE x \in keys : TRUE
         IN MinOver(IF k \in DOMAIN max_rec THEN Min(r, max_rec[k]) ELSE r,
                    keys \ {k}, max_rec)

\* Lines 411-422: rec = min(rec, max_rec) for every key with a configured
\* maximum.
Downgrade(r, res, cfg) == MinOver(r, DowngradeKeys(res), cfg.max_rec)

_recommendation(res, cfg) ==
    LET rule == BaseRule(res, cfg)
    IN IF rule \in {1, 6} THEN none
       ELSE Downgrade(RuleLevel(rule), res, cfg)

\* ------------------------------------------------------------ Python values
\* None of a string-valued and of a number-valued attribute.
NoneS == "<None>"
NoneN == 0 - 1
\* Truth value of a string / of a number (or None).
TruthyS(v) == v \notin {"", NoneS}
TruthyN(n) == n \notin {0, NoneN}

\* str.lower() on the strings of the model.
Lower(s) ==
    CASE s = "One" -> "one"
      [] s = "VA" -> "va"
      [] s = "CD" -> "cd"
      [] OTHER -> s

\* Line 59.
VA_ARTISTS == {"", "various artists", "various", "va", "unknown"}

\* The order of Python's string comparison on the titles of the model.
TitleOrder == <<"", "One", "one", "ones", "two">>
StrRank(s) == CHOOSE i \in 1..Len(TitleOrder) : TitleOrder[i] = s

\* ------------------------------------------------- hooks.Distance (external)
\* Distance weights: equal for every category.
Weight(key) == 1
\* Common multiple of the numbers of penalties a track Distance can hold, so
\* that a track's score raw/max enters the release Distance exactly.
Unit == 2 * 2 * 3 * 5 * 7

EmptyDist == [raw |-> 0, max |-> 0, keys |-> {}, tracks |-> <<>>]

RECURSIVE Sum(_)
Sum(numbers) == IF numbers = <<>> THEN 0 ELSE Head(numbers) + Sum(Tail(numbers))

RECURSIVE Flatten(_)
Flatten(lists) == IF lists = <<>> THEN <<>> ELSE Head(lists) \o Flatten(Tail(lists))

\* Distance.add(key, dist) with dist = p/q in [0,1]: the penalty appended,
\* counted in units of 1/(Scale*u).  An add_* call is modelled by the list
\* of the penalties it appends.
AddFrac(key, p, q, u) ==
    <<[key |-> key, raw |-> ((p * Scale * u) \div q) * Weight(key),
       max |-> Scale * u * Weight(key), hit |-> p > 0 /\ Weight(key) > 0]>>

\* Distance.add(key, dist) with dist an integer number of 1/Scale.
Add(key, p, u) == AddFrac(key, p, Scale, u)

\* The Distance holding the penalties of a list: raw_distance, max_distance
\* and the keys with a non-zero penalty.
Distance(penalties) ==
    [raw |-> Sum([i \in DOMAIN penalties |-> penalties[i].raw]),
     max |-> Sum([i \in DOMAIN penalties |-> penalties[i].max]),
     keys |-> {penalties[i].key : i \in {j \in DOMAIN penalties : penalties[j].hit}},
     tracks |-> <<>>]

CeilDiv(a, b) == (a + b - 1) \div b

\* hooks.string_dist: 0 for equal strings up to case, 1 for a full mismatch,
\* in between for similar strings.
StringDist(s1, s2) ==
    IF s1 = NoneS /\ s2 = NoneS THEN 0
    ELSE IF s1 = NoneS \/ s2 = NoneS THEN Scale
    ELSE IF Lower(s1) = Lower(s2) THEN 0
    ELSE IF {Lower(s1), Lower(s2)} = {"one", "ones"} THEN 1
    ELSE Scale

AddString(key, s1, s2, u) == Add(key, StringDist(s1, s2), u)
AddExpr(key, expr, u) == Add(key, IF expr THEN Scale ELSE 0, u)
\* add_equality with one option: a penalty unless value == option.
AddEquality(key, value, option, u) == Add(key, IF value = option THEN 0 ELSE Scale, u)

\* add_ratio: max(min(n1, n2), 0) / n2, or 0.0 when n2 is 0; rounded up to
\* the next 1/Scale, so that it is 0 exactly when the ratio is 0.
AddRatio(key, n1, n2, u) ==
    Add(key, IF n2 = 0 THEN 0 ELSE CeilDiv(Max(Min(n1, n2), 0) * Scale, n2), u)

\* n times add(key, p).
AddTimes(key, p, n, u) == Flatten([i \in 1..Max(n, 0) |-> Add(key, p, u)])

\* add_number: one full penalty per unit of difference, or one zero penalty.
AddNumber(key, n1, n2, u) ==
    IF Abs(n1 - n2) > 0 THEN AddTimes(key, Scale, Abs(n1 - n2), u)
    ELSE Add(key, 0, u)

\* A compiled pattern matches a value: case-insensitive (re.I).
ReMatch(pat, value) == Lower(pat) = Lower(value)

\* add_priority: i/len(options) for the first matching option i (from 0),
\* 1.0 when none matches.
AddPriority(key, value, options, u) ==
    LET hits == {i \in 1..Len(options) : ReMatch(options[i], value)}
        first == CHOOSE i \in hits : \A j \in hits : i <= j
    IN IF hits = {} THEN Add(key, Scale, u)
       ELSE AddFrac(key, first - 1, Len(options), u)

\* Distance.update(dist): merge the penalties of another Distance.
Update(d, other) ==
    [d EXCEPT !.raw = @ + other.raw, !.max = @ + other.max, !.keys = @ \cup other.keys]

\* plugins.track_distance / plugins.album_distance: an external Distance,
\* either empty (p = NoneN) or one penalty p under the plugin's own key.
PluginDist(p, u) == IF p = NoneN THEN EmptyDist ELSE Distance(Add("plugin", p, u))

\* ------------------------------------------------------- current_metadata
\* beets.util.plurality: the most frequent value (the first met wins a tie)
\* and its frequency.
Count(values, v) == Cardinality({i \in DOMAIN values : values[i] = v})
Plurality(values) ==
    LET best == CHOOSE i \in DOMAIN values :
                    /\ \A j \in DOMAIN values : Count(values, values[j]) <= Count(values, values[i])
                    /\ \A j \in 1..(i - 1) : Count(values, values[j]) < Count(values, values[i])
    IN <<values[best], Count(values, values[best])>>

Fields == {"artist", "album", "albumartist", "year", "disctotal", "mb_albumid", "label", "catalognum", "country", "media", "albumdisambig"}

FieldValues(items, f) == [i \in DOMAIN items |-> items[i][f]]

\* Lines 102-127: the likely value of each field and whether it is unanimous.
Likelies(items) ==
    LET plain == [f \in Fields |-> Plurality(FieldValues(items, f))[1]]
        unanimous == Plurality(FieldValues(items, "albumartist"))[2] = Len(items)
    IN IF unanimous /\ TruthyS(plain["albumartist"])
       THEN [plain EXCEPT !["artist"] = plain["albumartist"]]
       ELSE plain

Consensus(items) ==
    [f \in Fields |-> Plurality(FieldValues(items, f))[2] = Len(items)]

\* --------------------------------------------------------- track_distance
\* Lines 162-166.
track_index_changed(item, track_info) ==
    item.track \notin {track_info.medium_index, track_info.index}

\* Lines 169-178: functools.cache keeps the first value read.
get_track_length_grace_fresh(cfg, memo) == cfg.track_length_grace
get_track_length_grace(cfg, memo) ==
    IF memo.filled THEN memo.grace ELSE cfg.track_length_grace
get_track_length_max(cfg, memo) ==
    IF memo.filled THEN memo.max ELSE cfg.track_length_max

\* The cache after a call of both getters.
Memoize(cfg, memo) ==
    IF memo.filled THEN memo
    ELSE [filled |-> TRUE, grace |-> cfg.track_length_grace, max |-> cfg.track_length_max]

\* Line 197: some track has a known length, so the getters are called.
AnyLength(tracks) == \E j \in DOMAIN tracks : TruthyN(tracks[j].length)

\* Line 198: the length difference beyond the grace period.
LengthDiff_plus(item, track_info, grace) == Abs(item.length - track_info.length) + grace
LengthDiff(item, track_info, grace) == Abs(item.length - track_info.length) - grace

\* Lines 181-227.
track_distance(item, track_info, incl_artist, cfg, memo, plug) ==
    LET by_length == IF TruthyN(track_info.length)
                  THEN AddRatio("track_length",
                                LengthDiff(item, track_info, get_track_length_grace(cfg, memo)),
                                get_track_length_max(cfg, memo), 1)
                  ELSE <<>>
        by_title == AddString("track_title", item.title, track_info.title, 1)
        by_artist == IF incl_artist /\ TruthyS(track_info.artist)
                     /\ Lower(item.artist) \notin VA_ARTISTS
                  THEN AddString("track_artist", item.artist, track_info.artist, 1)
                  ELSE <<>>
        by_index == IF TruthyN(track_info.index) /\ TruthyN(item.track)
                 THEN AddExpr("track_index", track_index_changed(item, track_info), 1)
                 ELSE <<>>
        by_id == IF TruthyS(item.mb_trackid)
              THEN AddExpr("track_id", item.mb_trackid # track_info.track_id, 1)
              ELSE <<>>
        by_medium == IF TruthyN(track_info.medium) /\ TruthyN(item.disc)
                  THEN AddExpr("medium", item.disc # track_info.medium, 1)
                  ELSE <<>>
    IN Update(Distance(by_length \o by_title \o by_artist \o by_index \o by_id \o by_medium),
              PluginDist(plug.track, 1))

\* --------------------------------------------------------------- distance
\* Line 276: datetime.date.today().year.
Today == 2026

\* The item paired with track t.
ItemOf(mapping, t) == CHOOSE i \in DOMAIN mapping : mapping[i] = t
MappedTracks(mapping) == {mapping[i] : i \in DOMAIN mapping}

\* Lines 328-330: each paired track's score goes in under "tracks".
TrackPenalties(tds, n) ==
    Flatten([t \in 1..n |-> IF t \in DOMAIN tds
                            THEN AddFrac("tracks", Num(tds[t]), Den(tds[t]), Unit)
                            ELSE <<>>])

\* Lines 270-292.
YearPenalty(likelies, album_info, cfg) ==
    IF TruthyN(album_info.year) /\ cfg.original_year
    THEN LET original == IF TruthyN(album_info.original_year) THEN album_info.original_year ELSE 1889
         IN AddRatio("year", Abs(album_info.year - original), Abs(Today - original), Unit)
    ELSE IF TruthyN(likelies["year"]) /\ TruthyN(album_info.year)
    THEN IF likelies["year"] \in {album_info.year, album_info.original_year}
         THEN Add("year", 0, Unit)
         ELSE IF TruthyN(album_info.original_year)
         THEN AddRatio("year", Abs(likelies["year"] - album_info.year),
                       Abs(Today - album_info.original_year), Unit)
         ELSE Add("year", Scale, Unit)
    ELSE <<>>

\* Lines 230-326: the penalties of the release's own attributes.
AlbumPenalties(likelies, album_info, cfg) ==
    LET by_artist == IF ~album_info.va
                  THEN AddString("artist", likelies["artist"], album_info.artist, Unit)
                  ELSE <<>>
        by_album == AddString("album", likelies["album"], album_info.album, Unit)
        by_media == IF TruthyS(album_info.media)
                 THEN IF Len(cfg.preferred_media) > 0
                      THEN AddPriority("media", album_info.media, cfg.preferred_media, Unit)
                      ELSE IF TruthyS(likelies["media"])
                      THEN AddEquality("media", album_info.media, likelies["media"], Unit)
                      ELSE <<>>
                 ELSE <<>>
        by_mediums == IF TruthyN(likelies["disctotal"]) /\ TruthyN(album_info.mediums)
                   THEN AddNumber("mediums", likelies["disctotal"], album_info.mediums, Unit)
                   ELSE <<>>
        by_year == YearPenalty(likelies, album_info, cfg)
        by_country == IF TruthyS(album_info.country) /\ Len(cfg.preferred_countries) > 0
                   THEN AddPriority("country", album_info.country, cfg.preferred_countries, Unit)
                   ELSE IF TruthyS(likelies["country"]) /\ TruthyS(album_info.country)
                   THEN AddString("country", likelies["country"], album_info.country, Unit)
                   ELSE <<>>
        by_label == IF TruthyS(likelies["label"]) /\ TruthyS(album_info.label)
                 THEN AddString("label", likelies["label"], album_info.label, Unit)
                 ELSE <<>>
        by_catalognum == IF TruthyS(likelies["catalognum"]) /\ TruthyS(album_info.catalognum)
                      THEN AddString("catalognum", likelies["catalognum"],
                                     album_info.catalognum, Unit)
                      ELSE <<>>
        by_albumdisambig == IF TruthyS(likelies["albumdisambig"]) /\ TruthyS(album_info.albumdisambig)
                         THEN AddString("albumdisambig", likelies["albumdisambig"],
                                        album_info.albumdisambig, Unit)
                         ELSE <<>>
        by_album_id == IF TruthyS(likelies["mb_albumid"])
                    THEN AddEquality("album_id", likelies["mb_albumid"], album_info.album_id, Unit)
                    ELSE <<>>
    IN by_artist \o by_album \o by_media \o by_mediums \o by_year \o by_country \o by_label
           \o by_catalognum \o by_albumdisambig \o by_album_id

\* Lines 230-343.
distance(items, album_info, mapping, cfg, memo, plug) ==
    LET tds == [t \in MappedTracks(mapping) |->
                   track_distance(items[ItemOf(mapping, t)], album_info.tracks[t],
                                  album_info.va, cfg, memo, plug)]
        by_missing == AddTimes("missing_tracks", Scale,
                            Len(album_info.tracks) - Cardinality(DOMAIN mapping), Unit)
        by_unmatched == AddTimes("unmatched_tracks", Scale,
                              Len(items) - Cardinality(DOMAIN mapping), Unit)
        own == Distance(AlbumPenalties(Likelies(items), album_info, cfg)
                            \o TrackPenalties(tds, Len(album_info.tracks))
                            \o by_missing \o by_unmatched)
    IN Update([own EXCEPT !.tracks = tds], PluginDist(plug.album, Unit))

\* ----------------------------------------------------------- assign_items
\* Line 142: the cost of pairing item i with track j, in units of
\* 1/(Scale*Unit).
Cost(items, tracks, i, j, cfg, memo, plug) ==
    LET d == track_distance(items[i], tracks[j], FALSE, cfg, memo, plug)
    IN (Num(d) * Scale * Unit) \div Den(d)

RECURSIVE SumOver(_, _)
SumOver(f, todo) ==
    IF todo = {} THEN 0
    ELSE LET x == CHOOSE y \in todo : TRUE IN f[x] + SumOver(f, todo \ {x})

\* lap.lapjv(costs, extend_cost=True)[2]: for each column (track) the row
\* (item) assigned to it, or -1.  Any valid result: as many pairs as the
\* smaller dimension allows, no row used twice.
Assigned(y) == {j \in DOMAIN y : y[j] # -1}
IsAssignment(y, n, m) ==
    /\ \A j, k \in Assigned(y) : j # k => y[j] # y[k]
    /\ Cardinality(Assigned(y)) = Min(n, m)
TotalCost(costs, y) == SumOver([j \in Assigned(y) |-> costs[y[j]][j]], Assigned(y))
\* lapjv returns one of the assignments of minimal total cost.
LapJV(costs, n, m) ==
    LET all == {y \in [1..m -> {-1} \cup 1..n] : IsAssignment(y, n, m)}
        totals == {TotalCost(costs, y) : y \in all}
        least == CHOOSE c \in totals : \A e \in totals : c <= e
    IN {y \in all : TotalCost(costs, y) = least}

\* Lines 150-154: the dict from items to tracks, as a function from the
\* positions of the items to the positions of the tracks.
MappingOf(y) ==
    [i \in {y[j] : j \in Assigned(y)} |-> CHOOSE j \in Assigned(y) : y[j] = i]

\* Lexicographic <= on triples of numbers.
LexLe(a, b) ==
    \/ a[1] < b[1]
    \/ a[1] = b[1] /\ a[2] < b[2]
    \/ a[1] = b[1] /\ a[2] = b[2] /\ a[3] <= b[3]

\* The orders list.sort(key=...) can leave a list built from a set in: every
\* arrangement of the set that is sorted by the key.
SortedArrangements(S, key) ==
    {q \in [1..Cardinality(S) -> S] :
        /\ \A a, b \in DOMAIN q : a # b => q[a] # q[b]
        /\ \A a \in 1..(Len(q) - 1) : LexLe(key[q[a]], key[q[a + 1]])}

\* Line 155: set(items) - mapping.keys().
ExtraItems_values(n, mapping) == (1..n) \ MappedTracks(mapping)
ExtraItems(n, mapping) == (1..n) \ DOMAIN mapping
\* Line 157: set(tracks) - set(mapping.values()).
ExtraTracks(m, mapping) == (1..m) \ MappedTracks(mapping)

\* Lines 130-159: every result assign_items can return.
assign_items(items, tracks, cfg, memo, plug) ==
    LET n == Len(items)
        m == Len(tracks)
        costs == [i \in 1..n |-> [j \in 1..m |-> Cost(items, tracks, i, j, cfg, memo, plug)]]
        item_key == [a \in 1..n |-> <<items[a].disc, items[a].track, StrRank(items[a].title)>>]
        track_key == [a \in 1..m |-> <<0, tracks[a].index, StrRank(tracks[a].title)>>]
    IN UNION {{[mapping |-> MappingOf(y), extra_items |-> ei, extra_tracks |-> et] :
                  ei \in SortedArrangements(ExtraItems(n, MappingOf(y)), item_key),
                  et \in SortedArrangements(ExtraTracks(m, MappingOf(y)), track_key)} :
              y \in LapJV(costs, n, m)}

\* --------------------------------------------------------- _add_candidate
\* A dict, in insertion order: a sequence of entries with distinct keys.
DictKeys(d) == {d[i].key : i \in DOMAIN d}
DictValues(d) == [i \in DOMAIN d |-> d[i].value]
DictGet(d, k) == d[CHOOSE i \in DOMAIN d : d[i].key = k].value
\* d[k] = v: a new key is appended, an old key keeps its place.
DictSet(d, k, v) ==
    IF k \in DictKeys(d)
    THEN [i \in DOMAIN d |-> IF d[i].key = k THEN [key |-> k, value |-> v] ELSE d[i]]
    ELSE Append(d, [key |-> k, value |-> v])

NumFields == {"year", "original_year", "mediums"}
\* getattr(info, tag) is None.
IsNone(info, tag) == IF tag \in NumFields THEN info[tag] = NoneN ELSE info[tag] = NoneS

\* Line 450.
NoTracksIn(info) == Len(info.tracks) = 0
\* Line 455.
IsDuplicate(res, info) == TruthyS(info.album_id) /\ info.album_id \in DictKeys(res)
\* Lines 460-465.
MissingRequired_never(info, cfg) == FALSE
MissingRequired(info, cfg) == \E tag \in cfg.required : IsNone(info, tag)
\* Lines 474-479: the keys iterating a Distance yields, against the ignored
\* list.
HasIgnored(d, cfg) == \E penalty \in cfg.ignored : penalty \in d.keys

\* Lines 482-484.
AlbumMatch(d, info, asg) ==
    [kind |-> "album", distance |-> d, info |-> info, mapping |-> asg.mapping,
     extra_items |-> asg.extra_items, extra_tracks |-> asg.extra_tracks]

\* Lines 449-465: the call returns before the assignment is computed.
RejectedEarly(items, res, info, cfg) ==
    NoTracksIn(info) \/ IsDuplicate(res, info) \/ MissingRequired(info, cfg)

\* Lines 467-484: the rest of the call, given the result asg of assign_items.
StoreCandidate(items, res, info, asg, cfg, memo, plug) ==
    LET d == distance(items, info, asg.mapping, cfg, memo, plug)
    IN IF HasIgnored(d, cfg) THEN res
       ELSE DictSet(res, info.album_id, AlbumMatch(d, info, asg))

\* Lines 435-484: every result mapping one call can leave.
_add_candidate(items, res, info, cfg, memo, plug) ==
    IF RejectedEarly(items, res, info, cfg) THEN {res}
    ELSE {StoreCandidate(items, res, info, asg, cfg, memo, plug) :
             asg \in assign_items(items, info.tracks, cfg, memo, plug)}

\* The cache after one call.
AddCandidateCache(items, res, info, cfg, memo) ==
    IF ~RejectedEarly(items, res, info, cfg) /\ AnyLength(info.tracks)
    THEN Memoize(cfg, memo) ELSE memo

\* ------------------------------------------------------ records of the model
MaxItems == 2
MaxTracks == 2

BaseItem ==
    [title |-> "one", artist |-> "ar", album |-> "al", albumartist |-> "",
     track |-> 1, disc |-> 1, disctotal |-> 1, length |-> 3,
     mb_trackid |-> "T1", mb_albumid |-> "A1", year |-> 2000, label |-> "L",
     catalognum |-> "c1", country |-> "US", media |-> "CD",
     albumdisambig |-> "dis", comp |-> FALSE]

BaseTrack ==
    [title |-> "one", artist |-> NoneS, track_id |-> "T1", index |-> 1,
     medium_index |-> 1, medium |-> 1, length |-> 3]

BaseAlbum ==
    [artist |-> "ar", album |-> "al", va |-> FALSE, tracks |-> <<BaseTrack>>,
     media |-> "CD", mediums |-> 1, year |-> 2000, original_year |-> NoneN,
     country |-> "US", label |-> "L", catalognum |-> "c1",
     albumdisambig |-> "dis", album_id |-> "A1"]

NoInfo == [BaseAlbum EXCEPT !.tracks = <<>>, !.album_id = NoneS]



RECURSIVE SeqsUpTo(_, _)
SeqsUpTo(S, n) ==
    IF n = 0 THEN {<<>>}
    ELSE LET shorter == SeqsUpTo(S, n - 1)
         IN shorter \cup {Append(s, x) : s \in {t \in shorter : Len(t) = n - 1}, x \in S}
NonEmptySeqsUpTo(S, n) == SeqsUpTo(S, n) \ {<<>>}

BaseConfig ==
    [strong_rec_thresh |-> 1, medium_rec_thresh |-> 1, rec_gap_thresh |-> 1,
     max_rec |-> <<>>, required |-> {}, ignored |-> {}, timid |-> FALSE,
     preferred_media |-> <<>>, preferred_countries |-> <<>>, original_year |-> FALSE,
     track_length_grace |-> 1, track_length_max |-> 3, extra_tags |-> {}]

\* Nothing cached yet: the state of a fresh process.
EmptyCache == [filled |-> FALSE, grace |-> 0, max |-> 0]
\* No plugin contributes a distance.
NoPlugins == [track |-> NoneN, album |-> NoneN]
NoAssignment == [mapping |-> <<>>, extra_items |-> <<>>, extra_tracks |-> <<>>]
\* Nothing returned yet.
NoReturn == [cur_artist |-> NoneS, cur_album |-> NoneS, candidates |-> <<>>, recommendation |-> none]

\* ------------------------------------------------ inputs of the classifier
RecKeys == {"year", "track_length"}
NoTracks == <<>>

TrackDists == {[raw |-> 0, max |-> Scale, keys |-> ks, tracks |-> NoTracks] : ks \in SUBSET {"track_length"}}

BestDists(kind) ==
    {[raw |-> r, max |-> Scale, keys |-> ks, tracks |-> ts] :
        r \in 0..Scale, ks \in SUBSET RecKeys,
        ts \in IF kind = "album" THEN {NoTracks} \cup {<<td>> : td \in TrackDists}
               ELSE {NoTracks}}

OtherDists == {[raw |-> r, max |-> Scale, keys |-> ks, tracks |-> NoTracks] : r \in 0..Scale, ks \in SUBSET {"year"}}

Match(kind, d) == [kind |-> kind, distance |-> d]

IsSorted(res) == \A i \in 1..(Len(res) - 1) : ScoreLe(res[i].distance, res[i + 1].distance)


\* Every sorted candidate list of one kind, at most MaxCands long.
CandidateLists(kind) ==
    {<<>>} \cup
    {<<Match(kind, b)>> \o rest :
        b \in BestDists(kind),
        rest \in {s \in SeqsUpTo({Match(kind, o) : o \in OtherDists}, MaxCands - 1) :
                     IsSorted(s)}}

SortedLists ==
    {l \in CandidateLists("album") \cup CandidateLists("track") : IsSorted(l)}

MaxRecs == UNION {[D -> Levels] : D \in SUBSET RecKeys}


RecConfigs ==
    {[BaseConfig EXCEPT !.strong_rec_thresh = s, !.medium_rec_thresh = m,
                        !.rec_gap_thresh = g, !.max_rec = mr] :
        s \in 0..Scale, m \in 0..Scale, g \in 0..Scale, mr \in MaxRecs}

\* ------------------------------------------------------- SpecRec: actions
InitRec ==
    /\ config \in RecConfigs
    /\ pc = "idle"
    /\ results = <<>>
    /\ base = 0
    /\ rec = none
    /\ lower = <<>>
    /\ recLower = none
    /\ cache = EmptyCache
    /\ plugins = NoPlugins
    /\ cur_items = <<>>
    /\ cur_info = NoInfo
    /\ assignment = NoAssignment
    /\ cur_dist = EmptyDist
    /\ candidates = <<>>
    /\ before = <<>>
    /\ ncalls = 0
    /\ search_ids = <<>>
    /\ calls = <<>>
    /\ returned = NoReturn

\* One call _recommendation(results) on a sorted list.
Recommend ==
    /\ pc = "idle"
    /\ \E res \in SortedLists :
        /\ results' = res
        /\ base' = BaseRule(res, config)
        /\ rec' = _recommendation(res, config)
    /\ pc' = "classified"
    /\ UNCHANGED <<config, lower, recLower>>
    /\ UNCHANGED otherThanRec

\* A second call on the same list with a strictly smaller best score.
RecommendLower ==
    /\ pc = "classified"
    /\ Len(results) > 0
    /\ \E r \in 0..Scale :
        /\ r < results[1].distance.raw
        /\ lower' = [results EXCEPT ![1].distance.raw = r]
        /\ recLower' = _recommendation(lower', config)
    /\ pc' = "compared"
    /\ UNCHANGED <<config, results, base, rec>>
    /\ UNCHANGED otherThanRec

NextRec == Recommend \/ RecommendLower

SpecRec == InitRec /\ [][NextRec]_vars

\* ---------------------------------------------------- SpecAssign: actions
AssignItemUniverse ==
    {[BaseItem EXCEPT !.title = t, !.track = n] : t \in {"one", "two"}, n \in {0, 2}}
AssignTrackUniverse ==
    {[BaseTrack EXCEPT !.title = t, !.index = n, !.medium_index = n,
                       !.length = IF t = "one" /\ n = 2 THEN NoneN ELSE 3] :
        t \in {"one", "two"}, n \in {1, 2}}

InitAssign ==
    /\ config = BaseConfig
    /\ cache = EmptyCache
    /\ plugins = NoPlugins
    /\ pc = "idle"
    /\ results = <<>>
    /\ base = 0
    /\ rec = none
    /\ lower = <<>>
    /\ recLower = none
    /\ cur_items \in NonEmptySeqsUpTo(AssignItemUniverse, MaxItems)
    /\ cur_info = NoInfo
    /\ assignment = NoAssignment
    /\ cur_dist = EmptyDist
    /\ candidates = <<>>
    /\ before = <<>>
    /\ ncalls = 0
    /\ search_ids = <<>>
    /\ calls = <<>>
    /\ returned = NoReturn

\* One call assign_items(items, tracks).
AssignItems ==
    /\ pc = "idle"
    /\ \E tracks \in NonEmptySeqsUpTo(AssignTrackUniverse, MaxTracks) :
        /\ cur_info' = [BaseAlbum EXCEPT !.tracks = tracks]
        /\ assignment' \in assign_items(cur_items, tracks, config, cache, plugins)
        /\ cache' = IF AnyLength(tracks) THEN Memoize(config, cache) ELSE cache
    /\ pc' = "assigned"
    /\ UNCHANGED <<config, plugins, cur_items, cur_dist>>
    /\ UNCHANGED recVars
    /\ UNCHANGED accVars
    /\ UNCHANGED tagVars

NextAssign == AssignItems

SpecAssign == InitAssign /\ [][NextAssign]_vars

\* ------------------------------------------------- SpecRound: the round trip
\* A local record without optional tags.
BareItem ==
    [BaseItem EXCEPT !.albumartist = "", !.track = 0, !.disc = 0, !.disctotal = 0,
                     !.length = 0, !.mb_trackid = "", !.mb_albumid = "", !.year = 0,
                     !.label = "", !.catalognum = "", !.country = "", !.media = "",
                     !.albumdisambig = ""]

RoundItemUniverse ==
    {[BaseItem EXCEPT !.albumartist = "ar"],
     [BaseItem EXCEPT !.title = "two", !.artist = "VA", !.track = 2, !.mb_trackid = "T2"],
     BareItem,
     [BareItem EXCEPT !.title = "two", !.length = 3]}

\* The canonical track that copies every comparable field of a local record.
CopyTrack(item) ==
    [title |-> item.title, artist |-> item.artist, track_id |-> item.mb_trackid,
     index |-> item.track, medium_index |-> item.track, medium |-> item.disc,
     length |-> item.length]

\* The canonical release that copies every comparable field of the local
\* records; va and original_year have no local counterpart.
CopyRelease(items, va, original_year) ==
    LET likelies == Likelies(items)
    IN [artist |-> likelies["artist"], album |-> likelies["album"], va |-> va,
        tracks |-> [i \in DOMAIN items |-> CopyTrack(items[i])],
        media |-> likelies["media"], mediums |-> likelies["disctotal"],
        year |-> likelies["year"], original_year |-> original_year,
        country |-> likelies["country"], label |-> likelies["label"],
        catalognum |-> likelies["catalognum"],
        albumdisambig |-> likelies["albumdisambig"],
        album_id |-> likelies["mb_albumid"]]

\* The pairing of every local record with its own counterpart.
NaturalMapping(items) == [i \in DOMAIN items |-> i]

RoundConfigs ==
    {[BaseConfig EXCEPT !.strong_rec_thresh = s, !.max_rec = mr, !.original_year = oy,
                        !.preferred_media = pm, !.preferred_countries = pcs,
                        !.track_length_grace = g] :
        s \in 0..Scale, mr \in {<<>>, [tracks |-> low]}, oy \in BOOLEAN,
        pm \in {<<>>, <<"cd", "vinyl">>, <<"vinyl", "cd">>},
        pcs \in {<<>>, <<"GB", "US">>}, g \in {-1, 1}}

RoundPlugins ==
    {NoPlugins, [track |-> 0, album |-> 0], [track |-> Scale, album |-> Scale]}

InitRound ==
    /\ config \in RoundConfigs
    /\ cache = EmptyCache
    /\ plugins \in RoundPlugins
    /\ pc = "idle"
    /\ results = <<>>
    /\ base = 0
    /\ rec = none
    /\ lower = <<>>
    /\ recLower = none
    /\ cur_items \in NonEmptySeqsUpTo(RoundItemUniverse, MaxItems)
    /\ cur_info = NoInfo
    /\ assignment = NoAssignment
    /\ cur_dist = EmptyDist
    /\ candidates = <<>>
    /\ before = <<>>
    /\ ncalls = 0
    /\ search_ids = <<>>
    /\ calls = <<>>
    /\ returned = NoReturn

\* distance(items, album_info, mapping) for the copied release under the
\* natural pairing, then _recommendation of that one candidate.
RoundTrip ==
    /\ pc = "idle"
    /\ \E va \in BOOLEAN, oy \in {NoneN, 1990, 2000} :
        /\ cur_info' = CopyRelease(cur_items, va, oy)
        /\ assignment' = [mapping |-> NaturalMapping(cur_items),
                          extra_items |-> <<>>, extra_tracks |-> <<>>]
        /\ cur_dist' = distance(cur_items, cur_info', NaturalMapping(cur_items),
                                config, cache, plugins)
        /\ cache' = IF AnyLength(cur_info'.tracks) THEN Memoize(config, cache) ELSE cache
    /\ results' = <<Match("album", cur_dist')>>
    /\ base' = BaseRule(results', config)
    /\ rec' = _recommendation(results', config)
    /\ pc' = "matched"
    /\ UNCHANGED <<config, plugins, cur_items, lower, recLower>>
    /\ UNCHANGED accVars
    /\ UNCHANGED tagVars

NextRound == RoundTrip

SpecRound == InitRound /\ [][NextRound]_vars

\* ------------------------------------------------------- SpecAcc: actions
MaxCalls == 2

\* The candidate releases a search can surface.
AlbumUniverse ==
    {[BaseAlbum EXCEPT !.album_id = id, !.tracks = ts, !.year = y] :
        id \in {NoneS, "A1"},
        ts \in {<<>>, <<BaseTrack>>},
        y \in {NoneN, 1990, 2000}}

AccConfigs ==
    {[BaseConfig EXCEPT !.required = rq, !.ignored = ig] :
        rq \in {{}, {"year"}}, ig \in {{}, {"year"}, {"unmatched_tracks"}}}

InitAcc ==
    /\ config \in AccConfigs
    /\ cache = EmptyCache
    /\ plugins = NoPlugins
    /\ pc = "idle"
    /\ results = <<>>
    /\ base = 0
    /\ rec = none
    /\ lower = <<>>
    /\ recLower = none
    /\ cur_items \in NonEmptySeqsUpTo({BaseItem}, MaxItems)
    /\ cur_info = NoInfo
    /\ assignment = NoAssignment
    /\ cur_dist = EmptyDist
    /\ candidates = <<>>
    /\ before = <<>>
    /\ ncalls = 0
    /\ search_ids = <<>>
    /\ calls = <<>>
    /\ returned = NoReturn

\* One call _add_candidate(items, results, info) on the run's mapping.
AddCandidate ==
    /\ ncalls < MaxCalls
    /\ \E info \in AlbumUniverse :
        /\ cur_info' = info
        /\ IF RejectedEarly(cur_items, candidates, info, config)
           THEN /\ candidates' = candidates
                /\ assignment' = NoAssignment
                /\ cur_dist' = EmptyDist
           ELSE \E asg \in assign_items(cur_items, info.tracks, config, cache, plugins) :
                /\ assignment' = asg
                /\ cur_dist' = distance(cur_items, info, asg.mapping, config, cache, plugins)
                /\ candidates' = StoreCandidate(cur_items, candidates, info, asg,
                                                config, cache, plugins)
        /\ cache' = AddCandidateCache(cur_items, candidates, info, config, cache)
    /\ before' = candidates
    /\ ncalls' = ncalls + 1
    /\ pc' = "added"
    /\ UNCHANGED <<config, plugins, cur_items>>
    /\ UNCHANGED recVars
    /\ UNCHANGED tagVars

NextAcc == AddCandidate

SpecAcc == InitAcc /\ [][NextAcc]_vars

\* ------------------------------------------------- match_by_id, the sorting
\* Line 351: the ids of the records that carry one, in the records' order.
AlbumIds(items) == SelectSeq([i \in DOMAIN items |-> items[i].mb_albumid], TruthyS)

\* Lines 354-366: the id match_by_id looks up, None when it looks up nothing.
MatchByIdQuery_first(items) ==
    LET albumids == AlbumIds(items)
    IN IF albumids = <<>> THEN NoneS ELSE albumids[1]
MatchByIdQuery(items) ==
    LET albumids == AlbumIds(items)
    IN IF albumids = <<>> THEN NoneS
       ELSE IF \E i \in DOMAIN albumids : albumids[i] # albumids[1] THEN NoneS
       ELSE albumids[1]

\* One call to a metadata source: a lookup by id, with the source's answer
\* (a sequence of infos; None is the empty sequence).
NoExtraTags == [given |-> FALSE, tags |-> <<>>]
Call(fn, id, answer) ==
    [fn |-> fn, id |-> id, artist |-> NoneS, title |-> NoneS, va_likely |-> FALSE,
     extra_tags |-> NoExtraTags, result |-> answer]
\* A text search.
SearchCall(fn, artist, title, va, extra, answer) ==
    [fn |-> fn, id |-> NoneS, artist |-> artist, title |-> title, va_likely |-> va,
     extra_tags |-> extra, result |-> answer]

\* Lines 346-367, given what hooks.album_for_mbid answers when asked.
match_by_id(items, answer) ==
    LET first == MatchByIdQuery(items)
    IN IF first = NoneS
       THEN [calls |-> <<>>, result |-> <<>>]
       ELSE [calls |-> <<Call("album_for_mbid", first, answer)>>, result |-> answer]

\* Lines 430-432: sorted() is stable, so a match goes behind the matches
\* that came before it and are not worse.
InsertSorted_append(m, sorted) == Append(sorted, m)
InsertSorted(m, sorted) ==
    LET k == Cardinality({i \in DOMAIN sorted : ScoreLe(sorted[i].distance, m.distance)})
    IN SubSeq(sorted, 1, k) \o <<m>> \o SubSeq(sorted, k + 1, Len(sorted))

RECURSIVE _sort_candidates(_)
_sort_candidates(matches) ==
    IF matches = <<>> THEN <<>>
    ELSE InsertSorted(matches[Len(matches)],
                      _sort_candidates(SubSeq(matches, 1, Len(matches) - 1)))

\* ---------------------------------------------------------------- tag_album
\* Lines 520, 599, 618: `if search_ids`.
ExplicitIds_never(ids) == FALSE
ExplicitIds(ids) == ids # <<>>

\* Lines 534-538: the id match is returned at once.
IdMatchReturns_timid(res, r, cfg) == res # <<>> /\ r = strong
IdMatchReturns(res, r, cfg) == res # <<>> /\ ~cfg.timid /\ r = strong

\* Lines 547-549, 626-627: the terms searched for.
SearchTerms(search_artist, search_title, cur_artist, cur_title) ==
    IF ~(TruthyS(search_artist) /\ TruthyS(search_title))
    THEN <<cur_artist, cur_title>>
    ELSE <<search_artist, search_title>>

\* Lines 552-556.
ExtraTags(likelies, cfg) ==
    IF cfg.extra_tags = {} THEN NoExtraTags
    ELSE [given |-> TRUE, tags |-> [k \in cfg.extra_tags \cap Fields |-> likelies[k]]]

\* Lines 559-563.
VaLikely(items, consensus, search_artist) ==
    \/ ~consensus["artist"]
    \/ Lower(search_artist) \in VA_ARTISTS
    \/ \E i \in DOMAIN items : items[i].comp

\* Lines 521-524, 567-570: _add_candidate on every info in turn; the set of
\* the mappings (and caches) the loop can end with.
RECURSIVE AddAll(_, _, _, _, _, _)
AddAll(items, res, infos, cfg, memo, plug) ==
    IF infos = <<>> THEN {[res |-> res, memo |-> memo]}
    ELSE UNION {AddAll(items, r, Tail(infos), cfg,
                       AddCandidateCache(items, res, Head(infos), cfg, memo), plug) :
                   r \in _add_candidate(items, res, Head(infos), cfg, memo, plug)}

Returned(cur_artist, cur_album, matches, r) ==
    [cur_artist |-> cur_artist, cur_album |-> cur_album, candidates |-> matches,
     recommendation |-> r]

\* Lines 487-576, given the answers of the metadata sources: ans.by_id[i] is
\* what hooks.albums_for_id answers for search_ids[i], ans.lookup what
\* hooks.album_for_mbid answers, ans.search what hooks.album_candidates
\* answers.  The set of the outcomes the call can have.
tag_album(items, search_artist, search_album, ids, ans, cfg, memo, plug) ==
    LET likelies == Likelies(items)
        consensus == Consensus(items)
        cur_artist == likelies["artist"]
        cur_album == likelies["album"]
        Final(out, log, snap) ==
            LET candidates_sorted == _sort_candidates(DictValues(out.res))
            IN [calls |-> log, before |-> snap, candidates |-> out.res, memo |-> out.memo,
                returned |-> Returned(cur_artist, cur_album, candidates_sorted,
                                      _recommendation(candidates_sorted, cfg))]
    IN IF ExplicitIds(ids)
       THEN {Final(out, [i \in DOMAIN ids |-> Call("albums_for_id", ids[i], ans.by_id[i])], <<>>) :
                out \in AddAll(items, <<>>, Flatten(ans.by_id), cfg, memo, plug)}
       ELSE LET m == match_by_id(items, ans.lookup)
                log == <<Call("match_by_id", NoneS, m.result)>> \o m.calls
                firsts == IF m.result # <<>>
                          THEN AddAll(items, <<>>, m.result, cfg, memo, plug)
                          ELSE {[res |-> <<>>, memo |-> memo]}
                terms == SearchTerms(search_artist, search_album, cur_artist, cur_album)
                search == SearchCall("album_candidates", terms[1], terms[2],
                                     VaLikely(items, consensus, terms[1]),
                                     ExtraTags(likelies, cfg), ans.search)
            IN UNION {LET r == _recommendation(DictValues(first.res), cfg)
                      IN IF m.result # <<>> /\ IdMatchReturns(first.res, r, cfg)
                         THEN {[calls |-> log, before |-> first.res, candidates |-> first.res,
                                memo |-> first.memo,
                                returned |-> Returned(cur_artist, cur_album,
                                                      DictValues(first.res), r)]}
                         ELSE {Final(out, Append(log, search), first.res) :
                                  out \in AddAll(items, first.res, ans.search, cfg,
                                                 first.memo, plug)} :
                      first \in firsts}

\* ----------------------------------------------------------------- tag_item
TrackMatch(d, info) == [kind |-> "track", distance |-> d, info |-> info]

\* Line 599.
TrackIds(item, ids) ==
    IF ExplicitIds(ids) THEN ids
    ELSE IF TruthyS(item.mb_trackid) THEN <<item.mb_trackid>> ELSE <<>>

\* Lines 604-607, 632-633: the distance is computed (filling the cache of
\* the length getters when the track has a length) and the match stored
\* under the track's id.
StoreTrack(item, st, track_info, cfg, plug) ==
    [st EXCEPT !.res = DictSet(st.res, track_info.track_id,
                               TrackMatch(track_distance(item, track_info, TRUE, cfg,
                                                         st.memo, plug), track_info)),
               !.memo = IF TruthyN(track_info.length) THEN Memoize(cfg, st.memo)
                        ELSE st.memo]

\* Lines 603-615: the tracks one id yields, until a match is good enough.
RECURSIVE ScanTracks(_, _, _, _, _)
ScanTracks(item, st, infos, cfg, plug) ==
    IF infos = <<>> \/ st.done THEN st
    ELSE LET stored == StoreTrack(item, st, Head(infos), cfg, plug)
             r == _recommendation(_sort_candidates(DictValues(stored.res)), cfg)
         IN ScanTracks(item,
                       [stored EXCEPT !.rec = r, !.done = (r = strong /\ ~cfg.timid)],
                       Tail(infos), cfg, plug)

\* Lines 601-603: one id after the other, until a match is good enough.
RECURSIVE ScanIds(_, _, _, _, _, _, _)
ScanIds(item, st, trackids, by_id, k, cfg, plug) ==
    IF k > Len(trackids) \/ st.done THEN st
    ELSE ScanIds(item,
                 ScanTracks(item,
                            [st EXCEPT !.calls = Append(@, Call("tracks_for_id", trackids[k],
                                                                 by_id[k]))],
                            by_id[k], cfg, plug),
                 trackids, by_id, k + 1, cfg, plug)

\* Lines 631-633.
RECURSIVE StoreTracks(_, _, _, _, _)
StoreTracks(item, st, infos, cfg, plug) ==
    IF infos = <<>> THEN st
    ELSE StoreTracks(item, StoreTrack(item, st, Head(infos), cfg, plug), Tail(infos),
                     cfg, plug)

\* Lines 579-639, given the answers of the metadata sources: ans.by_id[k] is
\* what hooks.tracks_for_id answers for the k-th id, ans.search what
\* hooks.item_candidates answers.
tag_item(item, search_artist, search_title, ids, ans, cfg, memo, plug) ==
    LET trackids == TrackIds(item, ids)
        st == ScanIds(item, [res |-> <<>>, rec |-> NoneN, done |-> FALSE, memo |-> memo,
                             calls |-> <<>>],
                      trackids, ans.by_id, 1, cfg, plug)
        Outcome(s, matches, r) ==
            [calls |-> s.calls, before |-> st.res, candidates |-> s.res, memo |-> s.memo,
             returned |-> Returned(NoneS, NoneS, matches, r)]
    IN IF st.done
       THEN Outcome(st, _sort_candidates(DictValues(st.res)), st.rec)
       ELSE IF ExplicitIds(ids)
       THEN IF st.res # <<>>
            THEN Outcome(st, _sort_candidates(DictValues(st.res)), st.rec)
            ELSE Outcome(st, <<>>, none)
       ELSE LET terms == SearchTerms(search_artist, search_title, item.artist, item.title)
                search == SearchCall("item_candidates", terms[1], terms[2], FALSE,
                                     NoExtraTags, ans.search)
                all == StoreTracks(item, [st EXCEPT !.calls = Append(@, search)],
                                   ans.search, cfg, plug)
                candidates_sorted == _sort_candidates(DictValues(all.res))
            IN Outcome(all, candidates_sorted, _recommendation(candidates_sorted, cfg))

\* ------------------------------------------------------- SpecTag: actions
\* The most ids handed over as search_ids, and the most infos a text search
\* answers with.
MaxIds == 2
MaxFound == 1

\* Two records tagged with one release, a record tagged with another, and
\* an untagged record.
TagItemUniverse ==
    {BaseItem,
     [BaseItem EXCEPT !.title = "two", !.track = 2, !.mb_trackid = "T2"],
     [BaseItem EXCEPT !.title = "ones", !.mb_albumid = "A2"],
     [BaseItem EXCEPT !.mb_albumid = "", !.mb_trackid = "", !.track = 0, !.length = 9]}

\* The lists of local records: different files, at most MaxItems of them.
TagItemLists ==
    {l \in NonEmptySeqsUpTo(TagItemUniverse, MaxItems) :
        \A i, j \in DOMAIN l : i # j => l[i] # l[j]}

\* A release that differs from the records wherever it can.
BadAlbum ==
    [artist |-> "zz", album |-> "xx", va |-> FALSE,
     tracks |-> <<[BaseTrack EXCEPT !.title = "two", !.track_id = "T2", !.index = 2,
                                    !.medium_index = 2, !.medium = 2, !.length = 9]>>,
     media |-> "LP", mediums |-> 2, year |-> 1990, original_year |-> NoneN,
     country |-> "GB", label |-> "M", catalognum |-> "c9", albumdisambig |-> "zz",
     album_id |-> "A2"]

\* The releases the metadata sources know.
TagAlbums ==
    {BaseAlbum, BadAlbum, [BadAlbum EXCEPT !.album_id = NoneS],
     [BaseAlbum EXCEPT !.tracks = <<>>]}

\* hooks.album_for_mbid answers None or a release of the database, which
\* carries its id.
LookupAnswers == {<<>>} \cup {<<a>> : a \in {b \in TagAlbums : TruthyS(b.album_id)}}

BadTrack ==
    [title |-> "two", artist |-> "zz", track_id |-> "T2", index |-> 2,
     medium_index |-> 2, medium |-> 2, length |-> 9]

TagTracks == {BaseTrack, BadTrack, [BadTrack EXCEPT !.track_id = NoneS]}

\* hooks.albums_for_id, hooks.tracks_for_id: the one metadata source of the
\* model answers a lookup by id with nothing or with one info.
AlbumsForIdAnswers == {<<>>, <<BaseAlbum>>, <<BadAlbum>>}
TracksForIdAnswers == {<<>>, <<BaseTrack>>, <<BadTrack>>}

TermPairs == {<<NoneS, NoneS>>, <<"VA", "zz">>}

TagConfigs ==
    {[BaseConfig EXCEPT !.timid = t, !.extra_tags = x] :
        t \in BOOLEAN, x \in {{}, {"year"}}} \ {[BaseConfig EXCEPT !.timid = TRUE, !.extra_tags = {"year"}]}

AlbumAnswers(items, ids) ==
    IF ids # <<>>
    THEN {[by_id |-> b, lookup |-> <<>>, search |-> <<>>] :
             b \in [DOMAIN ids -> AlbumsForIdAnswers]}
    ELSE {[by_id |-> <<>>, lookup |-> l, search |-> s] :
             l \in IF MatchByIdQuery(items) = NoneS THEN {<<>>} ELSE LookupAnswers,
             s \in SeqsUpTo(TagAlbums, MaxFound)}

TrackAnswers(item, ids) ==
    {[by_id |-> b, search |-> s] :
        b \in [DOMAIN TrackIds(item, ids) -> TracksForIdAnswers],
        s \in IF ids # <<>> THEN {<<>>} ELSE SeqsUpTo(TagTracks, MaxFound)}

InitTag ==
    /\ config \in TagConfigs
    /\ cache = EmptyCache
    /\ plugins = NoPlugins
    /\ pc = "idle"
    /\ results = <<>>
    /\ base = 0
    /\ rec = none
    /\ lower = <<>>
    /\ recLower = none
    /\ cur_items \in TagItemLists
    /\ cur_info = NoInfo
    /\ assignment = NoAssignment
    /\ cur_dist = EmptyDist
    /\ candidates = <<>>
    /\ before = <<>>
    /\ ncalls = 0
    /\ search_ids = <<>>
    /\ calls = <<>>
    /\ returned = NoReturn

tagFrame == <<config, plugins, cur_items, cur_info, assignment, cur_dist, ncalls>>

\* One call match_by_id(items).
MatchById ==
    /\ pc = "idle"
    /\ \E answer \in LookupAnswers :
        LET m == match_by_id(cur_items, answer)
        IN calls' = <<Call("match_by_id", NoneS, m.result)>> \o m.calls
    /\ pc' = "looked_up"
    /\ UNCHANGED <<cache, candidates, before, search_ids, returned>>
    /\ UNCHANGED tagFrame
    /\ UNCHANGED recVars

\* One call tag_album(items, search_artist, search_album, search_ids).
TagAlbum ==
    /\ pc = "idle"
    /\ \E terms \in TermPairs, ids \in SeqsUpTo({"A1", "A2"}, MaxIds) :
        \E ans \in AlbumAnswers(cur_items, ids) :
            \E out \in tag_album(cur_items, terms[1], terms[2], ids, ans, config, cache,
                                 plugins) :
                /\ search_ids' = ids
                /\ calls' = out.calls
                /\ before' = out.before
                /\ candidates' = out.candidates
                /\ cache' = out.memo
                /\ returned' = out.returned
    /\ pc' = "tagged_album"
    /\ UNCHANGED tagFrame
    /\ UNCHANGED recVars

\* One call tag_item(item, search_artist, search_title, search_ids).
TagItem ==
    /\ pc = "idle"
    /\ Len(cur_items) = 1
    /\ \E terms \in TermPairs, ids \in SeqsUpTo({"T1", "T2"}, MaxIds) :
        \E ans \in TrackAnswers(cur_items[1], ids) :
            LET out == tag_item(cur_items[1], terms[1], terms[2], ids, ans, config, cache,
                                plugins)
            IN /\ search_ids' = ids
               /\ calls' = out.calls
               /\ before' = out.before
               /\ candidates' = out.candidates
               /\ cache' = out.memo
               /\ returned' = out.returned
    /\ pc' = "tagged_item"
    /\ UNCHANGED tagFrame
    /\ UNCHANGED recVars

NextTag == MatchById \/ TagAlbum \/ TagItem

SpecTag == InitTag /\ [][NextTag]_vars

\* ----------------------------------------------------- SpecCache: actions
\* One process in which the configuration is changed between calls.  Both
\* length settings show in the penalty of a track of length 9 against a
\* record of length 3.
InitCache ==
    /\ config = [BaseConfig EXCEPT !.track_length_grace = 1, !.track_length_max = 3]
    /\ cache = EmptyCache
    /\ plugins = NoPlugins
    /\ pc = "idle"
    /\ results = <<>>
    /\ base = 0
    /\ rec = none
    /\ lower = <<>>
    /\ recLower = none
    /\ cur_items = <<BaseItem>>
    /\ cur_info = NoInfo
    /\ assignment = NoAssignment
    /\ cur_dist = EmptyDist
    /\ candidates = <<>>
    /\ before = <<>>
    /\ ncalls = 0
    /\ search_ids = <<>>
    /\ calls = <<>>
    /\ returned = NoReturn

\* config["match"]["track_length_grace"] or ["track_length_max"] is set to
\* another value between two calls.
SetLengthConfig ==
    /\ \E g \in {1, 6}, m \in {3, 12} :
        /\ config' = [config EXCEPT !.track_length_grace = g, !.track_length_max = m]
        /\ config' # config
    /\ pc' = "idle"
    /\ UNCHANGED <<cache, plugins, cur_items, cur_info, assignment, cur_dist, candidates,
                   before, ncalls>>
    /\ UNCHANGED tagVars
    /\ UNCHANGED recVars

\* One call track_distance(item, track_info, incl_artist); the track and
\* incl_artist are kept in cur_info (as the one track and the va flag).  The
\* track comes with or without a known length.
MeasureTrack ==
    /\ \E track_info \in {BadTrack, [BadTrack EXCEPT !.length = NoneN], BaseTrack},
          incl_artist \in BOOLEAN :
        /\ cur_info' = [NoInfo EXCEPT !.tracks = <<track_info>>, !.va = incl_artist]
        /\ cur_dist' = track_distance(cur_items[1], track_info, incl_artist, config, cache,
                                      plugins)
        /\ cache' = IF TruthyN(track_info.length) THEN Memoize(config, cache) ELSE cache
    /\ pc' = "measured"
    /\ UNCHANGED <<config, plugins, cur_items, assignment, candidates, before, ncalls>>
    /\ UNCHANGED tagVars
    /\ UNCHANGED recVars

\* One more call tag_album(items, search_ids=[id]) in the same process.
TagAlbumAgain ==
    /\ \E answer \in AlbumsForIdAnswers :
        \E out \in tag_album(cur_items, NoneS, NoneS, <<"A1">>,
                             [by_id |-> <<answer>>, lookup |-> <<>>, search |-> <<>>],
                             config, cache, plugins) :
            /\ search_ids' = <<"A1">>
            /\ calls' = out.calls
            /\ before' = out.before
            /\ candidates' = out.candidates
            /\ cache' = out.memo
            /\ returned' = out.returned
    /\ pc' = "tagged_album"
    /\ UNCHANGED tagFrame
    /\ UNCHANGED recVars

\* One more call tag_item(item, search_ids=[id]) in the same process.
TagItemAgain ==
    /\ \E answer \in TracksForIdAnswers :
        LET out == tag_item(cur_items[1], NoneS, NoneS, <<"T1">>,
                            [by_id |-> <<answer>>, search |-> <<>>], config, cache, plugins)
        IN /\ search_ids' = <<"T1">>
           /\ calls' = out.calls
           /\ before' = out.before
           /\ candidates' = out.candidates
           /\ cache' = out.memo
           /\ returned' = out.returned
    /\ pc' = "tagged_item"
    /\ UNCHANGED tagFrame
    /\ UNCHANGED recVars

NextCache == SetLengthConfig \/ MeasureTrack \/ TagAlbumAgain \/ TagItemAgain

SpecCache == InitCache /\ [][NextCache]_vars

\* ---------------------------------------------------------------- claims
\* The score of a candidate of the classifier's input, in units of 1/Scale
\* (every such Distance has max = Scale, so its score is raw/Scale).
BestScore == results[1].distance.raw
SecondScore == results[2].distance.raw

\* C1: the base level is the level of the first rule that applies, in the
\* order: empty list -> none; best score strictly below the strong threshold
\* -> strong; best score at or below the medium threshold -> medium; exactly
\* one candidate -> low; second-best minus best >= gap threshold -> low;
\* otherwise none.  A best score equal to the strong threshold is not
\* strong, and one equal to the medium threshold (and not strong) is medium.
C1_FirstApplicableRule ==
    pc # "idle" =>
        LET n == Len(results)
            r2 == n > 0 /\ BestScore < config.strong_rec_thresh
            r3 == n > 0 /\ BestScore <= config.medium_rec_thresh
            r4 == n = 1
            r5 == n >= 2 /\ SecondScore - BestScore >= config.rec_gap_thresh
        IN /\ n = 0 => base = 1 /\ RuleLevel(base) = none
           /\ r2 => base = 2 /\ RuleLevel(base) = strong
           /\ n > 0 /\ ~r2 /\ r3 => base = 3 /\ RuleLevel(base) = medium
           /\ n > 0 /\ ~r2 /\ ~r3 /\ r4 => base = 4 /\ RuleLevel(base) = low
           /\ n > 0 /\ ~r2 /\ ~r3 /\ ~r4 /\ r5 => base = 5 /\ RuleLevel(base) = low
           /\ n > 0 /\ ~r2 /\ ~r3 /\ ~r4 /\ ~r5 => base = 6 /\ RuleLevel(base) = none
           /\ n > 0 /\ BestScore = config.strong_rec_thresh => base # 2
           /\ n > 0 /\ BestScore = config.medium_rec_thresh /\ ~r2 => base = 3

\* A best score equal to the strong threshold and above the medium one, with
\* a second candidate far enough behind: low by the gap rule.
C1_Witness ==
    /\ pc = "classified"
    /\ Len(results) = 2
    /\ BestScore = config.strong_rec_thresh
    /\ BestScore > config.medium_rec_thresh
    /\ base = 5

\* The penalty keys the downgrade pass may read, as the claim states them.
BestKeys ==
    results[1].distance.keys \cup
        (IF results[1].kind = "album"
         THEN UNION {results[1].distance.tracks[t].keys : t \in DOMAIN results[1].distance.tracks}
         ELSE {})
SetMin(S) == CHOOSE m \in S : \A x \in S : m <= x
\* The list with the penalty keys of every candidate but the best erased.
OthersErased ==
    [i \in 1..Len(results) |->
        IF i = 1 THEN results[i] ELSE [results[i] EXCEPT !.distance.keys = {}]]

\* C2: when the base level comes from rules 2-5 the result is the minimum of
\* the base level and the ceilings of the keys of the best candidate's
\* Distance and (release-level match) of its per-track Distances; it never
\* exceeds such a ceiling; keys of later candidates change nothing; after
\* rule 1 or rule 6 the result is none whatever the ceilings.
C2_ClampToCeilings ==
    pc # "idle" =>
        IF base \in {2, 3, 4, 5}
        THEN /\ rec = SetMin({RuleLevel(base)} \cup
                             {config.max_rec[k] : k \in BestKeys \cap DOMAIN config.max_rec})
             /\ \A k \in BestKeys \cap DOMAIN config.max_rec : rec <= config.max_rec[k]
             /\ rec = _recommendation(OthersErased, config)
        ELSE rec = none

\* A strong release-level match capped at low by a key of a per-track
\* Distance only, while the second candidate alone has a key capped at none.
C2_Witness ==
    /\ pc = "classified"
    /\ base = 2
    /\ Len(results) = 2
    /\ results[1].kind = "album"
    /\ results[1].distance.keys = {}
    /\ Len(results[1].distance.tracks) = 1
    /\ "track_length" \in results[1].distance.tracks[1].keys
    /\ "year" \in results[2].distance.keys
    /\ DOMAIN config.max_rec = RecKeys
    /\ config.max_rec["track_length"] = low
    /\ config.max_rec["year"] = none
    /\ rec = low

\* C3: of two lists equal but for a strictly smaller best score in one, the
\* one with the smaller best score never gets the lower recommendation.
C3_MonotonicInBestScore ==
    pc = "compared" => recLower >= rec

\* Lowering the best score lifted the recommendation from none to strong.
C3_Witness ==
    /\ pc = "compared"
    /\ Len(results) = 2
    /\ lower[1].distance.raw < results[1].distance.raw
    /\ rec = none
    /\ recLower = strong

Range(q) == {q[i] : i \in DOMAIN q}

\* C9: the result of assign_items is a partition: the mapping is
\* one-to-one, every local record is a key of the mapping or in the
\* extra-items list but not both, every canonical track is a value of the
\* mapping or in the extra-tracks list but not both, and no record is lost
\* or listed twice.
C9_AssignmentIsPartition ==
    pc = "assigned" =>
        LET mapping == assignment.mapping
            ei == assignment.extra_items
            et == assignment.extra_tracks
            n == Len(cur_items)
            m == Len(cur_info.tracks)
        IN /\ DOMAIN mapping \subseteq 1..n
           /\ MappedTracks(mapping) \subseteq 1..m
           /\ \A i, k \in DOMAIN mapping : i # k => mapping[i] # mapping[k]
           /\ \A i \in 1..n : (i \in DOMAIN mapping) # (i \in Range(ei))
           /\ \A j \in 1..m : (j \in MappedTracks(mapping)) # (j \in Range(et))
           /\ Range(ei) \subseteq 1..n
           /\ Range(et) \subseteq 1..m
           /\ Cardinality(Range(ei)) = Len(ei)
           /\ Cardinality(Range(et)) = Len(et)

\* Two local records with equal metadata against one track: one is paired,
\* the other is the extra item.
C9_Witness ==
    /\ pc = "assigned"
    /\ Len(cur_items) = 2
    /\ cur_items[1] = cur_items[2]
    /\ Len(cur_info.tracks) = 1
    /\ Cardinality(DOMAIN assignment.mapping) = 1
    /\ Len(assignment.extra_items) = 1
    /\ assignment.extra_tracks = <<>>

\* No configured ceiling is below strong.
NoCeilingBelowStrong == \A k \in DOMAIN config.max_rec : config.max_rec[k] >= strong

\* The round trip gave an aggregate score of 0 with no category
\* contributing, no missing or unmatched track, and recommendation strong.
PerfectMatch ==
    /\ Num(cur_dist) = 0
    /\ cur_dist.keys = {}
    /\ \A t \in DOMAIN cur_dist.tracks : cur_dist.tracks[t].keys = {}
    /\ DOMAIN assignment.mapping = DOMAIN cur_items
    /\ rec = strong

\* C10 as stated: under any configuration without a ceiling below strong
\* the round trip yields score 0 and recommendation strong.
C10_RoundTripAnyConfig ==
    pc = "matched" /\ NoCeilingBelowStrong => PerfectMatch

\* value is absent, or there is no preference list, or the first preferred
\* pattern matches it: add_priority contributes 0.
FirstChoice(value, options) ==
    ~TruthyS(value) \/ Len(options) = 0 \/ ReMatch(options[1], value)

\* The configuration and the plugins penalise nothing on their own.
NeutralSetup ==
    /\ config.strong_rec_thresh > 0
    /\ config.track_length_grace >= 0
    /\ plugins.track \in {NoneN, 0}
    /\ plugins.album \in {NoneN, 0}
    /\ \/ ~config.original_year
       \/ ~TruthyN(cur_info.year)
       \/ cur_info.year = (IF TruthyN(cur_info.original_year) THEN cur_info.original_year ELSE 1889)
    /\ FirstChoice(cur_info.media, config.preferred_media)
    /\ FirstChoice(cur_info.country, config.preferred_countries)

\* C10 (amended): the round trip yields score 0 and recommendation strong
\* when no ceiling is below strong, the strong threshold is positive, the
\* length grace is not negative, no plugin adds a non-zero penalty and the
\* release preferences (original year, media, country) penalise nothing.
C10_RoundTripNeutralSetup ==
    pc = "matched" /\ NoCeilingBelowStrong /\ NeutralSetup => PerfectMatch

\* Two records, a various-artists copy, preferences that the copy meets.
C10_Witness ==
    /\ pc = "matched"
    /\ NoCeilingBelowStrong
    /\ NeutralSetup
    /\ Len(cur_items) = 2
    /\ cur_items[1] # cur_items[2]
    /\ cur_info.va
    /\ config.original_year
    /\ cur_info.original_year = 2000
    /\ config.preferred_media = <<"cd", "vinyl">>
    /\ TruthyS(cur_info.media)
    /\ plugins.track = 0
    /\ cache.filled
    /\ PerfectMatch

\* C4: every stored Candidate Match has at least one track, every required
\* field present and no ignored penalty category among the categories of its
\* Distance; a candidate that fails one of these checks leaves the result
\* mapping unchanged.
C4_StoredCandidatesPassChecks ==
    /\ \A i \in DOMAIN candidates :
        LET m == candidates[i].value
        IN /\ Len(m.info.tracks) >= 1
           /\ \A tag \in config.required : ~IsNone(m.info, tag)
           /\ m.distance.keys \cap config.ignored = {}
    /\ pc = "added" =>
        LET fails == \/ Len(cur_info.tracks) = 0
                     \/ \E tag \in config.required : IsNone(cur_info, tag)
                     \/ cur_dist.keys \cap config.ignored # {}
        IN fails => candidates = before

\* One candidate is stored; the next has its tracks and required fields but
\* an ignored penalty, and is dropped.
C4_Witness ==
    /\ pc = "added"
    /\ Len(candidates) = 1
    /\ candidates = before
    /\ Len(cur_info.tracks) >= 1
    /\ config.required = {"year"}
    /\ ~IsNone(cur_info, "year")
    /\ ~TruthyS(cur_info.album_id)
    /\ cur_dist.keys \cap config.ignored # {}

\* C5: each call leaves the mapping unchanged or adds exactly one new key;
\* an entry once stored is never replaced or removed.
C5_NeverOverwrites ==
    pc = "added" =>
        \/ candidates = before
        \/ /\ Len(candidates) = Len(before) + 1
           /\ SubSeq(candidates, 1, Len(before)) = before
           /\ candidates[Len(candidates)].key \notin DictKeys(before)

\* The calls made to one metadata source, as positions of the log.
CallsTo(fn) == {i \in DOMAIN calls : calls[i].fn = fn}
\* The infos of the returned candidates.
ReturnedInfos == {returned.candidates[i].info : i \in DOMAIN returned.candidates}

IdLookup == calls[1].result
IdFound == IdLookup # <<>>
IdAccepted == IdFound /\ \E i \in DOMAIN before : before[i].value.info = IdLookup[1]
IdStrong == IdAccepted /\ _recommendation(DictValues(before), config) = strong
TextSearched == CallsTo("album_candidates") # {}

\* C7: in tag_album without explicit ids the text search is skipped exactly
\* when the lookup by id found a release, the accumulator stored it, it
\* classifies as strong and timid is off; then exactly that one candidate is
\* returned, with recommendation strong.  Otherwise the text search is made
\* once, and a stored id candidate is in the returned list, which is sorted.
C7_TextSearchSkippedIff ==
    (pc = "tagged_album" /\ search_ids = <<>>) =>
        /\ ~TextSearched <=> (IdFound /\ IdAccepted /\ IdStrong /\ ~config.timid)
        /\ ~TextSearched =>
            /\ Len(returned.candidates) = 1
            /\ returned.candidates[1].info = IdLookup[1]
            /\ returned.recommendation = strong
        /\ TextSearched =>
            /\ Cardinality(CallsTo("album_candidates")) = 1
            /\ IsSorted(returned.candidates)
            /\ IdAccepted => before[1].value \in Range(returned.candidates)

\* In timid mode a strong id candidate is stored, the text search is made
\* and finds another release, and both are returned.
C7_Witness ==
    /\ pc = "tagged_album"
    /\ search_ids = <<>>
    /\ config.timid
    /\ IdStrong
    /\ TextSearched
    /\ Len(returned.candidates) = 2

\* match_by_id has run (alone or inside tag_album).
LookedUp == calls # <<>> /\ calls[1].fn = "match_by_id"
\* Two records differ in their mb_albumid.
Disagree == \E i, j \in DOMAIN cur_items : cur_items[i].mb_albumid # cur_items[j].mb_albumid
\* The ids carried by the records that carry one.
CarriedIds == {cur_items[i].mb_albumid : i \in {j \in DOMAIN cur_items : TruthyS(cur_items[j].mb_albumid)}}

\* C8 as stated: if any two records disagree on their album id, match_by_id
\* returns nothing and the lookup is not called; the lookup is called only
\* when every record has the id that is looked up.
C8_AnyDisagreementAborts ==
    LookedUp =>
        /\ Disagree => (CallsTo("album_for_mbid") = {} /\ calls[1].result = <<>>)
        /\ \A c \in CallsTo("album_for_mbid") :
            \A i \in DOMAIN cur_items : cur_items[i].mb_albumid = calls[c].id

\* C8: records without an album id are left out.  If two records that carry
\* an id disagree, or no record carries one, match_by_id returns nothing and
\* the lookup is not called; the lookup is called, once and with that id,
\* exactly when some record carries an id and all that carry one carry the
\* same; match_by_id returns what the lookup answers.
C8_CarriedIdsAgree ==
    LookedUp =>
        /\ Cardinality(CarriedIds) # 1 =>
            (CallsTo("album_for_mbid") = {} /\ calls[1].result = <<>>)
        /\ Cardinality(CarriedIds) = 1 =>
            /\ CallsTo("album_for_mbid") = {2}
            /\ calls[2].id \in CarriedIds
            /\ calls[1].result = calls[2].result

\* One record carries an id and the other none: the id is looked up and the
\* release found is returned.
C8_Witness ==
    /\ pc = "looked_up"
    /\ Disagree
    /\ Cardinality(CarriedIds) = 1
    /\ CallsTo("album_for_mbid") # {}
    /\ calls[1].result # <<>>

\* C11: whatever path tag_album or tag_item returns by (explicit ids, the
\* early return of a strong match, nothing found, the full search), the
\* returned candidates are in order of non-decreasing distance and the
\* returned recommendation is the one _recommendation computes for exactly
\* the returned list; an empty list comes with recommendation none.
C11_ProposalSortedAndClassified ==
    pc \in {"tagged_album", "tagged_item"} =>
        /\ IsSorted(returned.candidates)
        /\ returned.recommendation = _recommendation(returned.candidates, config)
        /\ returned.candidates = <<>> => returned.recommendation = none

\* tag_album found a worse release before a better one: the returned list is
\* not in the order the candidates were stored in.
C11_Witness ==
    /\ pc = "tagged_album"
    /\ Len(returned.candidates) = 2
    /\ returned.candidates # DictValues(candidates)
    /\ returned.recommendation # none

\* The Distances the last call computed are the ones the length settings of
\* cfg give: the Distance track_distance returned, the Distance of every
\* TrackMatch tag_item stored, the Distance of every AlbumMatch tag_album
\* stored.
ComputedFrom(cfg) ==
    /\ pc = "measured" =>
        cur_dist = track_distance(cur_items[1], cur_info.tracks[1], cur_info.va, cfg,
                                  EmptyCache, plugins)
    /\ pc = "tagged_item" =>
        \A i \in DOMAIN candidates :
            candidates[i].value.distance =
                track_distance(cur_items[1], candidates[i].value.info, TRUE, cfg,
                               EmptyCache, plugins)
    /\ pc = "tagged_album" =>
        \A i \in DOMAIN candidates :
            candidates[i].value.distance =
                distance(cur_items, candidates[i].value.info, candidates[i].value.mapping,
                         cfg, EmptyCache, plugins)

\* C12 as stated: whatever calls and changes of the length settings came
\* before, a call computes its length penalties from the settings in force
\* at the time of that call.
C12_LengthFromCurrentConfig == ComputedFrom(config)

\* The configuration with the length settings the process has retained, if
\* it has retained any.
Retained ==
    IF cache.filled
    THEN [config EXCEPT !.track_length_grace = cache.grace, !.track_length_max = cache.max]
    ELSE config
RetainedInForce == ComputedFrom(Retained)

\* C12: the length settings are state shared across calls.  The first call
\* that meets a track with a known length reads them from the configuration
\* in force then and the process retains them; retained values never change
\* again, and every call computes its length penalties from them, whatever
\* the configuration holds at the time of the call.
C12_LengthFromRetainedValues ==
    /\ []RetainedInForce
    /\ [][/\ cache.filled => cache' = cache
          /\ (~cache.filled /\ cache'.filled) =>
               /\ cache'.grace = config.track_length_grace
               /\ cache'.max = config.track_length_max
          /\ (~cache.filled /\ ~cache'.filled /\ pc' = "measured") =>
               ~TruthyN(cur_info'.tracks[1].length)]_vars

\* The settings were changed after they had been read, and a later call of
\* track_distance returned a Distance the current settings do not give.
C12_Witness ==
    /\ pc = "measured"
    /\ cache.filled
    /\ <<cache.grace, cache.max>> # <<config.track_length_grace, config.track_length_max>>
    /\ TruthyN(cur_info.tracks[1].length)
    /\ cur_dist # track_distance(cur_items[1], cur_info.tracks[1], cur_info.va, config,
                                 EmptyCache, plugins)

====
